---- MODULE Spec2Model ----
(***************************************************************************)
(* Model of pixyz's shape-aware sample container (SampleDict, the class    *)
(* with one shared sample_shape) and of the invertible reshaping flow      *)
(* layers (squeeze / unsqueeze / permutation).                             *)
(*                                                                         *)
(* A tensor is a record [kind |-> "tensor", shape, data]: shape is the     *)
(* sequence of extents, data the elements in row-major (contiguous) order. *)
(* A python number is a record [kind |-> "number", num].                   *)
(***************************************************************************)
EXTENDS Integers, Sequences, FiniteSets, TLC

VARIABLES
    sample_shape,   \* SampleDict._sample_shape of the container under test
    entries,        \* its mapping, variable name -> tensor
    pc,             \* the caller: "idle" between calls, "returned" right after one
    last,           \* the call that just returned: arguments, outcome, state before it
    flow            \* the flow layers' run: layer, input, current tensor, calls made

vars == <<sample_shape, entries, pc, last, flow>>

\* ---------------------------------------------------------------- bounds
\* largest rank of a value handed to the container
MaxRank == 2
\* largest length of a sample_shape handed to the container
MaxDepth == 2
\* largest number of values in a list handed to from_arg
MaxArgLen == 2
\* largest batch size, channel count and height / width of a flow layer's input
MaxBatch == 2
MaxChannels == 4
MaxSide == 4
\* most calls made in a row on the flow layers
MaxCalls == 2

\* the extents a dimension takes, the variable names, the element values
Extents == {1, 2}
Keys == {"x", "y"}
Fills == {0}

\* ------------------------------------------------------- python helpers
Min(a, b) == IF a < b THEN a ELSE b
Max(a, b) == IF a > b THEN a ELSE b

\* s[:n] for n >= 0
Take(s, n) == SubSeq(s, 1, Min(n, Len(s)))

\* s[-m:] for m >= 0; python reads -0 as 0, so s[-0:] is all of s
LastOf(s, m) == IF m = 0 THEN s ELSE SubSeq(s, Max(1, Len(s) - m + 1), Len(s))

\* s[:-m] for m > 0
DropLast(s, m) == SubSeq(s, 1, Max(0, Len(s) - m))

Ones(k) == [i \in 1..k |-> 1]

RECURSIVE Numel(_)
Numel(shape) == IF shape = <<>> THEN 1 ELSE Head(shape) * Numel(Tail(shape))

ShapesOfRank(r) == [1..r -> Extents]
ShapesUpTo(r) == UNION {ShapesOfRank(k) : k \in 0..r}

\* torch.full(shape, c)
Full(shape, c) ==
    [kind |-> "tensor", shape |-> shape, data |-> [i \in 1..Numel(shape) |-> c]]

\* value if torch.is_tensor(value) else torch.tensor(value, dtype=torch.float)
ToTensor(value) ==
    IF value.kind = "tensor" THEN value
    ELSE [kind |-> "tensor", shape |-> <<>>, data |-> <<value.num>>]

\* tensor[(None,) * k]: k new leading dimensions of extent 1, same elements
Unsqueeze(t, k) == [kind |-> "tensor", shape |-> Ones(k) \o t.shape, data |-> t.data]

\* dict.__setitem__
Put(d, key, t) == [x \in DOMAIN d \cup {key} |-> IF x = key THEN t ELSE d[x]]

EmptyDict == [x \in {} |-> 0]

\* ------------------------------------------------------------ SampleDict
IsBroadcastableTo(from_shape, to_shape) ==
    \A i \in 1..Min(Len(from_shape), Len(to_shape)) :
        LET a == from_shape[Len(from_shape) - i + 1]
            b == to_shape[Len(to_shape) - i + 1]
        IN  a = 1 \/ a = b

\* the check of __setitem__: the value's leading dims against sample_shape
SetItemAccepts(ss, value) ==
    IsBroadcastableTo(Take(ToTensor(value).shape, Len(ss)), ss)

\* SampleDict.__setitem__: [ok, ss, d]; a ValueError leaves the dict as it was
SetItemResult(ss, d, key, value) ==
    IF SetItemAccepts(ss, value)
    THEN [ok |-> TRUE, ss |-> ss, d |-> Put(d, key, ToTensor(value))]
    ELSE [ok |-> FALSE, ss |-> ss, d |-> d]

\* the loop of __init__: self[key] = value for each item, stopping at a raise
RECURSIVE SetItems(_, _, _)
SetItems(ss, d, items) ==
    IF items = <<>> THEN [ok |-> TRUE, ss |-> ss, d |-> d]
    ELSE LET r == SetItemResult(ss, d, Head(items).key, Head(items).value)
         IN  IF r.ok THEN SetItems(ss, r.d, Tail(items)) ELSE r

\* SampleDict(variables, sample_shape, **kwargs); variables is
\* [kind |-> "SampleDict", ss, items], [kind |-> "dict", items] or
\* [kind |-> "generator", items], an iterable of (key, value) pairs
Construct(variables, shape_arg, kwargs) ==
    LET ss == IF variables.kind = "SampleDict" THEN variables.ss ELSE shape_arg
    IN  SetItems(ss, EmptyDict, variables.items \o kwargs)

\* update, line 185-188: the sample_shape the incoming entries were made under
TargetSampleShape(variables) ==
    IF variables.kind = "SampleDict" THEN variables.ss ELSE <<>>

\* faulty variant: the existing entries keep their shapes when the sample_shape grows
LeftAsStored(d, k) == d

\* update, line 193-194: every existing entry gets k new leading dimensions
Realigned(d, k) == [key \in DOMAIN d |-> Unsqueeze(d[key], k)]

\* faulty variant: the grown sample_shape is the incoming one even when the receiver had its own
GrownAsIncoming(ss, target) == target

\* update, line 195-198: the receiver's sample_shape after it has grown
GrownSampleShape(ss, target) ==
    IF ss # <<>> THEN DropLast(target, Len(ss)) \o ss ELSE target

\* update, line 205: the assertion on one incoming tensor
ItemAccepted(ss, tensor, ndim_target_s) ==
    IsBroadcastableTo(Take(tensor.shape, ndim_target_s), LastOf(ss, ndim_target_s))

\* faulty variant: the incoming tensor is stored as it came
StoredAsGiven(tensor, n_unsqueeze) == tensor

\* update, line 208-211: what is stored for one incoming tensor
StoredTensor(tensor, n_unsqueeze) ==
    IF n_unsqueeze >= 0 THEN Unsqueeze(tensor, n_unsqueeze) ELSE tensor

\* faulty variant: the receiver takes the incoming sample_shape whatever its length
AdoptIncoming(ss, target) == target

\* update, line 190-198: the receiver's sample_shape once the lengths are compared
NewSampleShape(ss, target) ==
    IF Len(ss) - Len(target) < 0 THEN GrownSampleShape(ss, target) ELSE ss

\* update, line 202-211: the loop over the incoming items; a failed assertion
\* stops it and keeps what was stored so far
RECURSIVE StoreItems(_, _, _, _, _)
StoreItems(ss, d, items, ndim_target_s, n_unsqueeze) ==
    IF items = <<>> THEN [ok |-> TRUE, ss |-> ss, d |-> d]
    ELSE LET tensor == ToTensor(Head(items).value)
         IN  IF ItemAccepted(ss, tensor, ndim_target_s)
             THEN StoreItems(ss, Put(d, Head(items).key, StoredTensor(tensor, n_unsqueeze)),
                             Tail(items), ndim_target_s, n_unsqueeze)
             ELSE [ok |-> FALSE, ss |-> ss, d |-> d]

\* SampleDict.update(variables, **kwargs)
UpdateResult(ss, d, variables, kwargs) ==
    LET target_sample_shape == TargetSampleShape(variables)
        ndim_target_s == Len(target_sample_shape)
        n_unsqueeze == Len(ss) - ndim_target_s
        d1 == IF n_unsqueeze < 0 THEN Realigned(d, -n_unsqueeze) ELSE d
        ss1 == NewSampleShape(ss, target_sample_shape)
    IN  StoreItems(ss1, d1, variables.items \o kwargs, ndim_target_s, n_unsqueeze)

\* the SampleDict that add builds from its arguments: SampleDict({var_name: value}, sample_shape)
AddArgument(var_name, value, shape_arg) ==
    Construct([kind |-> "dict", items |-> <<[key |-> var_name, value |-> value]>>],
              shape_arg, <<>>)

\* SampleDict.add(var_name, value, sample_shape)
AddResult(ss, d, var_name, value, shape_arg) ==
    LET made == AddArgument(var_name, value, shape_arg)
    IN  IF ~made.ok THEN [ok |-> FALSE, ss |-> ss, d |-> d]
        ELSE UpdateResult(ss, d,
                 [kind |-> "SampleDict", ss |-> made.ss,
                  items |-> <<[key |-> var_name, value |-> made.d[var_name]]>>], <<>>)

\* dict.items(): the entries in the dict's order
KeyOrder == <<"x", "y">>
RECURSIVE ItemsIn(_, _)
ItemsIn(d, order) ==
    IF order = <<>> THEN <<>>
    ELSE (IF Head(order) \in DOMAIN d
          THEN <<[key |-> Head(order), value |-> d[Head(order)]]>> ELSE <<>>)
         \o ItemsIn(d, Tail(order))
ItemsOf(d) == ItemsIn(d, KeyOrder)

\* the items a generator over self.items() lets through
RECURSIVE Filtered(_, _)
Filtered(items, keep) ==
    IF items = <<>> THEN <<>>
    ELSE (IF Head(items).key \in keep THEN <<Head(items)>> ELSE <<>>)
         \o Filtered(Tail(items), keep)

\* SampleDict.from_variables(var)
FromVariablesResult(ss, d, var) ==
    Construct([kind |-> "dict", items |-> Filtered(ItemsOf(d), var)], ss, <<>>)

\* SampleDict.split(var): <<extracted_sample, remain_sample>>
SplitResult(ss, d, var) ==
    << Construct([kind |-> "dict", items |-> Filtered(ItemsOf(d), var)], <<>>, <<>>),
       Construct([kind |-> "dict", items |-> Filtered(ItemsOf(d), DOMAIN d \ var)],
                 <<>>, <<>>) >>

\* {key if key not in key_diff else key_diff[key]: value for key, value in self.items()}
RECURSIVE Renamed(_, _)
Renamed(items, key_diff) ==
    IF items = <<>> THEN <<>>
    ELSE LET key == Head(items).key
             new == IF key \in DOMAIN key_diff THEN key_diff[key] ELSE key
             rest == Renamed(Tail(items), key_diff)
         IN  \* a later item of the same new name replaces this one
             IF \E i \in 1..Len(rest) : rest[i].key = new THEN rest
             ELSE <<[key |-> new, value |-> Head(items).value]>> \o rest

\* SampleDict.replaced_dict(key_diff)
ReplacedDictResult(ss, d, key_diff) ==
    Construct([kind |-> "dict", items |-> Renamed(ItemsOf(d), key_diff)], ss, <<>>)

\* SampleDict.copy(): SampleDict(self), which takes self's sample_shape and
\* assigns each of self's items again
CopyResult(ss, d) ==
    Construct([kind |-> "SampleDict", ss |-> ss, items |-> ItemsOf(d)], <<>>, <<>>)

\* SampleDict.detach(): SampleDict(generator of (var_name, sample.detach()),
\* self.sample_shape); detach() keeps the tensor's shape and elements
DetachResult(ss, d) ==
    Construct([kind |-> "generator", items |-> ItemsOf(d)], ss, <<>>)

\* ------------------------------------------------------ the inputs drawn
SampleShapes == ShapesUpTo(MaxDepth)
Values ==
    {Full(s, c) : s \in ShapesUpTo(MaxRank), c \in Fills}
        \cup {[kind |-> "number", num |-> c] : c \in Fills}
Items == [key : Keys, value : Values]
ItemSeqs ==
    {s \in UNION {[1..n -> Items] : n \in 0..Cardinality(Keys)} :
        \A i, j \in 1..Len(s) : i # j => s[i].key # s[j].key}

\* a plain mapping, or a SampleDict that its own constructor accepted
DictArgs == {[kind |-> "dict", items |-> s] : s \in ItemSeqs}
SampleDictArgs ==
    {[kind |-> "SampleDict", ss |-> ss,
      items |-> [i \in 1..Len(s) |-> [key |-> s[i].key, value |-> ToTensor(s[i].value)]]] :
        <<ss, s>> \in {p \in SampleShapes \X ItemSeqs :
                          SetItems(p[1], EmptyDict, p[2]).ok}}
\* keyword arguments: at most one beside the positional mapping
UpdateArgs ==
    {p \in (DictArgs \cup SampleDictArgs) \X ItemSeqs :
        Len(p[2]) <= 1 /\ Len(p[1].items) + Len(p[2]) <= Cardinality(Keys)}

\* ------------------------------------------------------ the state machine
NewNames == Keys \cup {"z"}
KeyDiffs == UNION {[D -> NewNames] : D \in SUBSET NewNames}

NoFlow == [layer |-> "none"]

NoCall == [op |-> "none", ok |-> TRUE, old_ss |-> <<>>, old_entries |-> EmptyDict,
           target_ss |-> <<>>, items |-> <<>>, results |-> <<>>]

Called(op, r, target, items) ==
    /\ sample_shape' = r.ss
    /\ entries' = r.d
    /\ pc' = "returned"
    /\ last' = [op |-> op, ok |-> r.ok, old_ss |-> sample_shape, old_entries |-> entries,
                target_ss |-> target, items |-> items, results |-> <<>>]
    /\ UNCHANGED flow

\* a call that returns new SampleDicts and leaves the receiver alone
Derived(op, results) ==
    /\ pc' = "returned"
    /\ last' = [op |-> op, ok |-> \A i \in 1..Len(results) : results[i].ok,
                old_ss |-> sample_shape, old_entries |-> entries,
                target_ss |-> sample_shape, items |-> <<>>, results |-> results]
    /\ UNCHANGED <<sample_shape, entries, flow>>

\* SampleDict(variables, sample_shape), when it returns an object
Init ==
    \E ss \in SampleShapes, s \in ItemSeqs :
        LET r == Construct([kind |-> "dict", items |-> s], ss, <<>>)
        IN  /\ r.ok
            /\ sample_shape = r.ss
            /\ entries = r.d
            /\ pc = "returned"
            /\ last = [op |-> "__init__", ok |-> TRUE, old_ss |-> ss,
                       old_entries |-> EmptyDict, target_ss |-> ss, items |-> s,
                       results |-> <<>>]
            /\ flow = NoFlow

SetItem ==
    /\ pc = "idle"
    /\ \E key \in Keys, value \in Values :
           Called("__setitem__", SetItemResult(sample_shape, entries, key, value),
                  sample_shape, <<[key |-> key, value |-> value]>>)

Add ==
    /\ pc = "idle"
    /\ \E key \in Keys, value \in Values, shape_arg \in SampleShapes :
           Called("add", AddResult(sample_shape, entries, key, value, shape_arg),
                  shape_arg, <<[key |-> key, value |-> value]>>)

Update ==
    /\ pc = "idle"
    /\ \E a \in UpdateArgs :
           Called("update", UpdateResult(sample_shape, entries, a[1], a[2]),
                  TargetSampleShape(a[1]), a[1].items \o a[2])

FromVariables ==
    /\ pc = "idle"
    /\ \E var \in SUBSET NewNames :
           Derived("from_variables", <<FromVariablesResult(sample_shape, entries, var)>>)

Split ==
    /\ pc = "idle"
    /\ \E var \in SUBSET NewNames :
           Derived("split", SplitResult(sample_shape, entries, var))

ReplacedDict ==
    /\ pc = "idle"
    /\ \E key_diff \in KeyDiffs :
           Derived("replaced_dict", <<ReplacedDictResult(sample_shape, entries, key_diff)>>)

Copy ==
    /\ pc = "idle"
    /\ Derived("copy", <<CopyResult(sample_shape, entries)>>)

Detach ==
    /\ pc = "idle"
    /\ Derived("detach", <<DetachResult(sample_shape, entries)>>)

\* the caller goes on to its next call
Proceed ==
    /\ pc = "returned"
    /\ pc' = "idle"
    /\ last' = NoCall
    /\ UNCHANGED <<sample_shape, entries, flow>>

Next ==
    \/ SetItem \/ Add \/ Update
    \/ FromVariables \/ Split \/ ReplacedDict \/ Copy \/ Detach
    \/ Proceed

Spec == Init /\ [][Next]_vars

\* ------------------------------------------------- claims on SampleDict
Mutating == {"__setitem__", "add", "update"}
Returned(ops) == pc = "returned" /\ last.op \in ops

\* the names an update was handed, and the value handed last under a name
IncomingKeys == {last.items[i].key : i \in 1..Len(last.items)}
IncomingValue(key) ==
    LET i == CHOOSE i \in 1..Len(last.items) :
                 /\ last.items[i].key = key
                 /\ \A j \in (i + 1)..Len(last.items) : last.items[j].key # key
    IN  ToTensor(last.items[i].value)

\* C1: every stored tensor t has, at every index i below min(t.ndim,
\* len(sample_shape)), the extent sample_shape[i] or the extent 1.
LeadingDimsMatchSampleShape ==
    \A key \in DOMAIN entries :
        \A i \in 1..Min(Len(entries[key].shape), Len(sample_shape)) :
            entries[key].shape[i] = sample_shape[i] \/ entries[key].shape[i] = 1

\* C2: every stored tensor has at least len(sample_shape) dimensions.
EntriesHaveSampleRank ==
    \A key \in DOMAIN entries : Len(entries[key].shape) >= Len(sample_shape)

\* C3: a failed __setitem__, add or update leaves the key set, the shape of
\* every stored tensor and the sample_shape as they were before the call.
FailedCallChangesNothing ==
    (Returned(Mutating) /\ ~last.ok) =>
        /\ DOMAIN entries = DOMAIN last.old_entries
        /\ \A key \in DOMAIN entries : entries[key].shape = last.old_entries[key].shape
        /\ sample_shape = last.old_ss

\* C4: a successful update (or add) whose incoming sample_shape is longer by
\* k sets sample_shape to the first k incoming extents followed by the old
\* sample_shape, and gives every entry stored before the call k new leading
\* dimensions of extent 1, unless an incoming value of the same name has
\* replaced it.
GrowthRealignsEntries ==
    (Returned({"update", "add"}) /\ last.ok /\ Len(last.target_ss) > Len(last.old_ss)) =>
        LET k == Len(last.target_ss) - Len(last.old_ss)
        IN  /\ sample_shape = Take(last.target_ss, k) \o last.old_ss
            /\ last.old_ss = <<>> => sample_shape = last.target_ss
            /\ DOMAIN last.old_entries \subseteq DOMAIN entries
            /\ \A key \in DOMAIN last.old_entries :
                   \/ /\ entries[key].shape = Ones(k) \o last.old_entries[key].shape
                      /\ entries[key].data = last.old_entries[key].data
                      /\ Len(entries[key].shape) = Len(last.old_entries[key].shape) + k
                   \/ key \in IncomingKeys /\ entries[key] = IncomingValue(key)
            /\ \A key \in DOMAIN last.old_entries \ IncomingKeys :
                   entries[key].shape = Ones(k) \o last.old_entries[key].shape

\* C4 witness: a container with a non-empty sample_shape and an entry has
\* grown by an update that kept that entry.
GrowthWitness ==
    /\ Returned({"update"}) /\ last.ok
    /\ last.old_ss # <<>>
    /\ Len(last.target_ss) > Len(last.old_ss)
    /\ DOMAIN last.old_entries \ IncomingKeys # {}
    /\ DOMAIN last.old_entries \cap IncomingKeys # {}
    /\ last.old_ss = <<2>> /\ sample_shape = <<2, 2>>
    /\ \E key \in DOMAIN last.old_entries \ IncomingKeys :
           last.old_entries[key].shape = <<2, 2>> /\ entries[key].shape = <<1, 2, 2>>

\* C5: every SampleDict that from_variables, split and replaced_dict return
\* has the receiver's sample_shape.
DerivedKeepSampleShape ==
    Returned({"from_variables", "split", "replaced_dict"}) =>
        \A i \in 1..Len(last.results) :
            last.results[i].ok /\ last.results[i].ss = sample_shape

\* C9: len(sample_shape) never decreases, and it changes only in an update
\* or add whose incoming sample_shape is longer than the receiver's.
DepthMonotonic ==
    [][/\ Len(sample_shape') >= Len(sample_shape)
       /\ Len(sample_shape') # Len(sample_shape) =>
              /\ last'.op \in {"update", "add"}
              /\ Len(last'.target_ss) > Len(sample_shape)]_vars

\* C9 witness: a call has made the sample_shape deeper.
DepthGrewWitness ==
    /\ Returned(Mutating)
    /\ Len(sample_shape) > Len(last.old_ss)
    /\ last.old_ss = <<2>>
    /\ last.old_entries # EmptyDict

\* C10: a successful update or add whose incoming sample_shape is not longer
\* than the receiver's (n = the difference in length) leaves sample_shape
\* and every entry not named by the call as they were, and stores each
\* incoming value with n leading dimensions of extent 1 before its shape.
ShallowUpdateFrame ==
    (Returned({"update", "add"}) /\ last.ok /\ Len(last.target_ss) <= Len(last.old_ss)) =>
        LET n == Len(last.old_ss) - Len(last.target_ss)
        IN  /\ sample_shape = last.old_ss
            /\ DOMAIN entries = DOMAIN last.old_entries \cup IncomingKeys
            /\ \A key \in DOMAIN last.old_entries \ IncomingKeys :
                   entries[key] = last.old_entries[key]
            /\ \A key \in IncomingKeys :
                   /\ entries[key].shape = Ones(n) \o IncomingValue(key).shape
                   /\ entries[key].data = IncomingValue(key).data

\* C10 witness: add of a value made under a shorter, non-empty sample_shape
\* (the docstring's add('w', ..., sample_shape=(4,)) into a deeper container).
ShallowAddWitness ==
    /\ Returned({"add"}) /\ last.ok
    /\ last.target_ss # <<>>
    /\ Len(last.target_ss) < Len(last.old_ss)
    /\ \E key \in IncomingKeys :
           /\ Len(IncomingValue(key).shape) > Len(last.target_ss)
           /\ IncomingValue(key).shape = <<2, 2>>
           /\ entries[key].shape = <<1, 2, 2>>
    /\ last.target_ss = <<2>> /\ last.old_ss = <<2, 2>>
    /\ DOMAIN last.old_entries \ IncomingKeys # {}

\* C11: every stored tensor passes the check of __setitem__ against the
\* current sample_shape, in every state that construction, __setitem__, add
\* and update reach (a call that failed part-way included); so copy, detach
\* and from_variables, which assign the entries again under the same
\* sample_shape, never raise, and copy and detach return every entry.
EntriesPassAssignmentCheck ==
    /\ \A key \in DOMAIN entries : SetItemAccepts(sample_shape, entries[key])
    /\ Returned({"copy", "detach", "from_variables"}) =>
           \A i \in 1..Len(last.results) :
               /\ last.results[i].ok
               /\ last.results[i].d = [key \in DOMAIN last.results[i].d |-> entries[key]]
    /\ Returned({"copy", "detach"}) =>
           /\ last.results[1].ss = sample_shape
           /\ last.results[1].d = entries

\* C11 witness: copy has returned on a container whose sample_shape has two
\* extents, one of them above 1, and which holds a tensor of lower rank than
\* the sample_shape beside one of higher rank.
RevalidatedCopyWitness ==
    /\ Returned({"copy"}) /\ last.ok
    /\ sample_shape = <<1, 2>>
    /\ \E key \in DOMAIN entries : entries[key].shape = <<2>>
    /\ \E key \in DOMAIN entries : entries[key].shape = <<1, 2, 2>>
    /\ last.results[1].d = entries

\* ---------------------------------------------------------------- from_arg
\* set(list(arg.keys())) >= set(required_keys)
HasRequiredKeys(items, required_keys) ==
    {required_keys[i] : i \in 1..Len(required_keys)}
        \subseteq {items[i].key : i \in 1..Len(items)}

\* from_arg, line 251-255: value_list, or None when arg is no value and no iterable
\* (none: value_list is still None)
ValueList(arg) ==
    IF arg.kind \in {"tensor", "number"} THEN [none |-> FALSE, values |-> <<arg>>]
    ELSE IF arg.kind = "list" THEN [none |-> FALSE, values |-> arg.values]
    ELSE [none |-> TRUE, values |-> <<>>]

\* from_arg, line 257: python's truth value of value_list (None and [] are false)
Truthy(value_list) == ~value_list.none /\ Len(value_list.values) # 0

\* zip(required_keys, value_list)
Zip(keys, values) ==
    [i \in 1..Min(Len(keys), Len(values)) |-> [key |-> keys[i], value |-> values[i]]]

Raised(error) == [ok |-> FALSE, error |-> error, ss |-> <<>>, d |-> EmptyDict]
Returning(ss, d) == [ok |-> TRUE, error |-> "none", ss |-> ss, d |-> d]

\* from_arg, line 268-269: SampleDict({key: tensor for key, value in items})
FromItems(items) ==
    LET r == Construct([kind |-> "dict",
                        items |-> [i \in 1..Len(items) |->
                                      [key |-> items[i].key,
                                       value |-> ToTensor(items[i].value)]]],
                       <<>>, <<>>)
    IN  IF r.ok THEN Returning(r.ss, r.d) ELSE Raised("ValueError")

\* SampleDict.from_arg(arg, required_keys)
FromArgResult(arg, required_keys) ==
    IF arg.kind = "SampleDict"
    THEN IF ~HasRequiredKeys(arg.items, required_keys) THEN Raised("ValueError")
         ELSE Returning(arg.ss, SetItems(arg.ss, EmptyDict, arg.items).d)
    ELSE IF arg.kind = "None"
    THEN IF Len(required_keys) # 0 THEN Raised("ValueError")
         ELSE Returning(<<>>, EmptyDict)
    ELSE LET value_list == ValueList(arg)
         IN  IF Truthy(value_list)
             THEN IF Len(required_keys) # Len(value_list.values) THEN Raised("ValueError")
                  ELSE FromItems(Zip(required_keys, value_list.values))
             ELSE IF arg.kind = "dict"
             THEN IF ~HasRequiredKeys(arg.items, required_keys) THEN Raised("ValueError")
                  ELSE FromItems(arg.items)
             ELSE Raised("ValueError")

\* what from_arg is handed: None, a tensor, a number, a list of values, a
\* mapping, a SampleDict, or an object that is none of these
ArgLists == {[kind |-> "list", values |-> v] :
                v \in UNION {[1..n -> Values] : n \in 0..MaxArgLen}}
Args ==
    {[kind |-> "None"], [kind |-> "object"]} \cup Values \cup ArgLists
        \cup DictArgs \cup SampleDictArgs
RequiredKeys ==
    {s \in UNION {[1..n -> Keys] : n \in 0..Cardinality(Keys)} :
        \A i, j \in 1..Len(s) : i # j => s[i] # s[j]}

InitArg ==
    /\ \E arg \in Args, required_keys \in RequiredKeys :
           last = [op |-> "from_arg", arg |-> arg, required_keys |-> required_keys,
                   ok |-> TRUE, error |-> "none"]
    /\ pc = "calling"
    /\ sample_shape = <<>>
    /\ entries = EmptyDict
    /\ flow = NoFlow

\* the call returns a SampleDict, or raises
FromArg ==
    /\ pc = "calling"
    /\ LET r == FromArgResult(last.arg, last.required_keys)
       IN  /\ sample_shape' = r.ss
           /\ entries' = r.d
           /\ last' = [last EXCEPT !.ok = r.ok, !.error = r.error]
    /\ pc' = "returned"
    /\ UNCHANGED flow

NextArg == FromArg

SpecArg == InitArg /\ [][NextArg]_vars

\* C6: from_arg with None returns an empty SampleDict when required_keys is
\* empty and fails otherwise; with a tensor, a number or a list of values it
\* succeeds exactly when the number of values is len(required_keys), zero
\* included, mapping the i-th key to the i-th value, and fails with
\* ValueError otherwise.
FromArgValueStyle ==
    (pc = "returned" /\ last.op = "from_arg") =>
        /\ last.arg.kind = "None" =>
               /\ last.ok <=> last.required_keys = <<>>
               /\ last.ok => entries = EmptyDict /\ sample_shape = <<>>
        /\ last.arg.kind \in {"tensor", "number", "list"} =>
               LET values == IF last.arg.kind = "list" THEN last.arg.values
                             ELSE <<last.arg>>
               IN  /\ last.ok <=> Len(values) = Len(last.required_keys)
                   /\ ~last.ok => last.error = "ValueError"
                   /\ last.ok =>
                          /\ DOMAIN entries =
                                 {last.required_keys[i] : i \in 1..Len(values)}
                          /\ \A i \in 1..Len(values) :
                                 entries[last.required_keys[i]] = ToTensor(values[i])

\* ------------------------------------------------------------ flow layers
\* Indices are python's, from 0; sequences are TLA+'s, from 1.

\* the multi-index of the element at flat (row-major) position n
RECURSIVE Unravel(_, _)
Unravel(n, shape) ==
    IF shape = <<>> THEN <<>>
    ELSE LET inner == Numel(Tail(shape))
         IN  <<n \div inner>> \o Unravel(n % inner, Tail(shape))

\* the flat (row-major) position of the element at multi-index idx
RECURSIVE Ravel(_, _)
Ravel(idx, shape) ==
    IF shape = <<>> THEN 0
    ELSE Head(idx) * Numel(Tail(shape)) + Ravel(Tail(idx), Tail(shape))

\* torch.Tensor.permute(*dims): dimension i of the result is dimension dims[i]
Permute(t, dims) ==
    LET rank == Len(t.shape)
        shape == [i \in 1..rank |-> t.shape[dims[i] + 1]]
        source(idx) == [m \in 1..rank |->
                           idx[CHOOSE i \in 1..rank : dims[i] + 1 = m]]
    IN  [kind |-> "tensor", shape |-> shape,
         data |-> [j \in 1..Numel(shape) |->
                      t.data[Ravel(source(Unravel(j - 1, shape)), t.shape) + 1]]]

\* torch.Tensor.view(*shape): the same elements in the same order under a new
\* shape; one extent may be -1 and is inferred. The layers view either a
\* contiguous tensor or a permuted one whose dimensions are only split, both
\* of which torch accepts.
RECURSIVE Product(_)
Product(shape) == IF shape = <<>> THEN 1 ELSE Head(shape) * Product(Tail(shape))
View(t, shape) ==
    LET known == Product([i \in 1..Len(shape) |-> IF shape[i] = -1 THEN 1 ELSE shape[i]])
    IN  [kind |-> "tensor",
         shape |-> [i \in 1..Len(shape) |->
                       IF shape[i] = -1 THEN Numel(t.shape) \div known ELSE shape[i]],
         data |-> t.data]

FlowRaised(error) == [ok |-> FALSE, error |-> error]
FlowReturned(t) == [ok |-> TRUE, error |-> "none", tensor |-> t]

\* faulty variant: the two halves of a 2x2 block are put back in the other order
SqueezeInverseSwapped(z) ==
    LET channels == z.shape[2]
        height == z.shape[3]
        width == z.shape[4]
    IN  IF channels % 4 # 0 THEN FlowRaised("ValueError")
        ELSE LET z1 == Permute(z, <<0, 2, 3, 1>>)
                 z2 == View(z1, <<-1, height, width, channels \div 4, 2, 2>>)
                 z3 == Permute(z2, <<0, 1, 5, 2, 4, 3>>)
                 z4 == View(z3, <<-1, 2 * height, 2 * width, channels \div 4>>)
             IN  FlowReturned(Permute(z4, <<0, 3, 1, 2>>))

\* SqueezeLayer.forward(x)
SqueezeForward(x) ==
    LET channels == x.shape[2]
        height == x.shape[3]
        width == x.shape[4]
    IN  IF height % 2 # 0 \/ width % 2 # 0 THEN FlowRaised("ValueError")
        ELSE LET x1 == Permute(x, <<0, 2, 3, 1>>)
                 x2 == View(x1, <<-1, height \div 2, 2, width \div 2, 2, channels>>)
                 x3 == Permute(x2, <<0, 1, 3, 5, 2, 4>>)
                 x4 == View(x3, <<-1, height \div 2, width \div 2, channels * 4>>)
             IN  FlowReturned(Permute(x4, <<0, 3, 1, 2>>))

\* SqueezeLayer.inverse(z)
SqueezeInverse(z) ==
    LET channels == z.shape[2]
        height == z.shape[3]
        width == z.shape[4]
    IN  IF channels % 4 # 0 THEN FlowRaised("ValueError")
        ELSE LET z1 == Permute(z, <<0, 2, 3, 1>>)
                 z2 == View(z1, <<-1, height, width, channels \div 4, 2, 2>>)
                 z3 == Permute(z2, <<0, 1, 4, 2, 5, 3>>)
                 z4 == View(z3, <<-1, 2 * height, 2 * width, channels \div 4>>)
             IN  FlowReturned(Permute(z4, <<0, 3, 1, 2>>))

\* UnsqueezeLayer.forward(x) and UnsqueezeLayer.inverse(z)
UnsqueezeForward(x) == SqueezeInverse(x)
UnsqueezeInverse(z) == SqueezeForward(z)

\* torch.tensor([i+1 for i in range(n)]).view(shape), the docstrings' input
Arange(shape) ==
    [kind |-> "tensor", shape |-> shape, data |-> [i \in 1..Numel(shape) |-> i]]

FlowInputs ==
    {Arange(<<b, c, h, w>>) :
        b \in 1..MaxBatch, c \in 1..MaxChannels, h \in 1..MaxSide, w \in 1..MaxSide}

NoLayer == [kind |-> "none"]

InitSqueeze ==
    /\ \E x \in FlowInputs :
           flow = [layer |-> "squeeze", perm |-> NoLayer, x |-> x, cur |-> x,
                   calls |-> <<>>, err |-> FALSE]
    /\ sample_shape = <<>>
    /\ entries = EmptyDict
    /\ pc = "idle"
    /\ last = NoCall

\* one call on the current tensor: its result becomes the current tensor, a
\* raise ends the run
FlowCall(name, r) ==
    /\ flow' = [flow EXCEPT !.calls = Append(@, name),
                            !.err = ~r.ok,
                            !.cur = IF r.ok THEN r.tensor ELSE @]
    /\ UNCHANGED <<sample_shape, entries, pc, last>>

CanCall == ~flow.err /\ Len(flow.calls) < MaxCalls

CallSqueezeForward ==
    /\ flow.layer = "squeeze" /\ CanCall
    /\ FlowCall("SqueezeLayer.forward", SqueezeForward(flow.cur))

CallSqueezeInverse ==
    /\ flow.layer = "squeeze" /\ CanCall
    /\ FlowCall("SqueezeLayer.inverse", SqueezeInverse(flow.cur))

CallUnsqueezeForward ==
    /\ flow.layer = "squeeze" /\ CanCall
    /\ FlowCall("UnsqueezeLayer.forward", UnsqueezeForward(flow.cur))

CallUnsqueezeInverse ==
    /\ flow.layer = "squeeze" /\ CanCall
    /\ FlowCall("UnsqueezeLayer.inverse", UnsqueezeInverse(flow.cur))

NextSqueeze ==
    CallSqueezeForward \/ CallSqueezeInverse \/ CallUnsqueezeForward \/ CallUnsqueezeInverse

SpecSqueeze == InitSqueeze /\ [][NextSqueeze]_vars

\* C7: for a 4D input (B, C, H, W) with H and W even, SqueezeLayer.forward
\* returns shape (B, 4C, H/2, W/2) and SqueezeLayer.inverse of it is the
\* input, element for element; UnsqueezeLayer undoes SqueezeLayer and is
\* undone by it. The docstrings' outputs are the ones computed.
SqueezeRoundTrip ==
    LET x == flow.x
        even == x.shape[3] % 2 = 0 /\ x.shape[4] % 2 = 0
        first == flow.calls[1]
        undoes == { <<"SqueezeLayer.forward", "SqueezeLayer.inverse">>,
                    <<"SqueezeLayer.forward", "UnsqueezeLayer.forward">>,
                    <<"UnsqueezeLayer.inverse", "UnsqueezeLayer.forward">>,
                    <<"UnsqueezeLayer.inverse", "SqueezeLayer.inverse">>,
                    <<"UnsqueezeLayer.forward", "UnsqueezeLayer.inverse">>,
                    <<"UnsqueezeLayer.forward", "SqueezeLayer.forward">>,
                    <<"SqueezeLayer.inverse", "SqueezeLayer.forward">>,
                    <<"SqueezeLayer.inverse", "UnsqueezeLayer.inverse">> }
    IN  flow.layer = "squeeze" =>
        /\ (Len(flow.calls) = 1 /\ first = "SqueezeLayer.forward") =>
               /\ flow.err <=> ~even
               /\ ~flow.err =>
                      /\ flow.cur.shape = <<x.shape[1], 4 * x.shape[2],
                                            x.shape[3] \div 2, x.shape[4] \div 2>>
                      /\ Len(flow.cur.data) = Len(x.data)
               /\ x.shape = <<1, 1, 4, 4>> =>
                      flow.cur.data = <<1, 3, 9, 11, 2, 4, 10, 12,
                                        5, 7, 13, 15, 6, 8, 14, 16>>
        /\ (Len(flow.calls) = 1 /\ first = "UnsqueezeLayer.forward") =>
               /\ flow.err <=> x.shape[2] % 4 # 0
               /\ x.shape = <<1, 4, 2, 2>> =>
                      flow.cur.data = <<1, 5, 2, 6, 9, 13, 10, 14,
                                        3, 7, 4, 8, 11, 15, 12, 16>>
        /\ flow.calls \in undoes =>
               /\ ~flow.err
               /\ flow.cur = x

\* C7 witness: a batch of several channels with more than one 2x2 block in
\* each direction has gone through forward and inverse.
SqueezeWitness ==
    /\ flow.layer = "squeeze"
    /\ flow.calls = <<"SqueezeLayer.forward", "SqueezeLayer.inverse">>
    /\ ~flow.err
    /\ flow.x.shape = <<2, 2, 4, 4>>

\* ------------------------------------------------------ permutation layers
\* faulty variant: the inverse indexes with the permutation itself
ArgSortAsGiven(p) == p

\* np.argsort(p): the (0-based) positions of p's elements in ascending order
ArgSort(p) ==
    LET before(i) == Cardinality({j \in 1..Len(p) :
                                     p[j] < p[i] \/ (p[j] = p[i] /\ j < i)})
    IN  [r \in 1..Len(p) |-> (CHOOSE i \in 1..Len(p) : before(i) = r - 1) - 1]

\* x[:, indices, :, :]: channel i of the result is channel indices[i] of x
IndexChannels(x, indices) ==
    IF \E i \in 1..Len(indices) : indices[i] < 0 \/ indices[i] >= x.shape[2]
    THEN FlowRaised("IndexError")
    ELSE LET shape == <<x.shape[1], Len(indices), x.shape[3], x.shape[4]>>
             source(idx) == <<idx[1], indices[idx[2] + 1], idx[3], idx[4]>>
         IN  FlowReturned(
                 [kind |-> "tensor", shape |-> shape,
                  data |-> [j \in 1..Numel(shape) |->
                               x.data[Ravel(source(Unravel(j - 1, shape)), x.shape) + 1]]])

\* PermutationLayer.__init__(permute_indices)
PermutationLayer(kind, permute_indices) ==
    [kind |-> kind, permute_indices |-> permute_indices,
     inv_permute_indices |-> ArgSort(permute_indices)]

\* PermutationLayer.forward(x) and PermutationLayer.inverse(z)
PermutationForward(layer, x) == IndexChannels(x, layer.permute_indices)
PermutationInverse(layer, z) == IndexChannels(z, layer.inv_permute_indices)

\* the permutations of 0..n-1, each of which np.random.permutation(n) may return
ChannelPermutations(n) ==
    {p \in [1..n -> 0..(n - 1)] : \A i, j \in 1..n : i # j => p[i] # p[j]}

\* np.array(np.arange(0, in_channels)[::-1])
Reversed(n) == [i \in 1..n |-> n - i]

\* the layers that can be built for in_channels channels
LayersFor(in_channels) ==
    {PermutationLayer("PermutationLayer", p) : p \in ChannelPermutations(in_channels)}
        \cup {PermutationLayer("ShuffleLayer", p) : p \in ChannelPermutations(in_channels)}
        \cup {PermutationLayer("ReverseLayer", Reversed(in_channels))}

\* the inputs of the permutation layers: the channel axis is the one indexed,
\* so height and width stay within the docstring's 2 x 2
PermutationInputs == {x \in FlowInputs : x.shape[3] <= 2 /\ x.shape[4] <= 2}

InitPermutation ==
    /\ \E x \in PermutationInputs : \E layer \in LayersFor(x.shape[2]) :
           flow = [layer |-> "permutation", perm |-> layer, x |-> x, cur |-> x,
                   calls |-> <<>>, err |-> FALSE]
    /\ sample_shape = <<>>
    /\ entries = EmptyDict
    /\ pc = "idle"
    /\ last = NoCall

CallPermutationForward ==
    /\ flow.layer = "permutation" /\ CanCall
    /\ FlowCall("forward", PermutationForward(flow.perm, flow.cur))

CallPermutationInverse ==
    /\ flow.layer = "permutation" /\ CanCall
    /\ FlowCall("inverse", PermutationInverse(flow.perm, flow.cur))

NextPermutation == CallPermutationForward \/ CallPermutationInverse

SpecPermutation == InitPermutation /\ [][NextPermutation]_vars

\* the channel c (0-based) of a 4D tensor: its elements, batch by batch
Channel(t, c) ==
    [b \in 0..(t.shape[1] - 1) |->
        [k \in 1..(t.shape[3] * t.shape[4]) |->
            t.data[(b * t.shape[2] + c) * t.shape[3] * t.shape[4] + k]]]

\* C8: for a layer built from a permutation p of the channel indices
\* (PermutationLayer, ReverseLayer, ShuffleLayer), forward puts channel p[i]
\* of x at channel i, and inverse(forward(x)) is x, element for element.
PermutationRoundTrip ==
    flow.layer = "permutation" =>
        /\ flow.calls = <<"forward">> =>
               /\ ~flow.err
               /\ flow.cur.shape = flow.x.shape
               /\ \A i \in 1..Len(flow.perm.permute_indices) :
                      Channel(flow.cur, i - 1)
                          = Channel(flow.x, flow.perm.permute_indices[i])
               /\ (flow.x.shape = <<1, 4, 2, 2>>
                      /\ flow.perm.permute_indices = <<0, 3, 1, 2>>) =>
                      flow.cur.data = <<1, 2, 3, 4, 13, 14, 15, 16,
                                        5, 6, 7, 8, 9, 10, 11, 12>>
        /\ flow.calls = <<"forward", "inverse">> =>
               /\ ~flow.err
               /\ flow.cur = flow.x

\* C8 witness: a shuffled layer whose permutation is not its own inverse,
\* and a reversed layer of several channels, have gone forward and back.
PermutationWitness ==
    /\ flow.layer = "permutation"
    /\ flow.calls = <<"forward", "inverse">>
    /\ ~flow.err
    /\ flow.perm.kind = "ShuffleLayer"
    /\ flow.perm.permute_indices = <<1, 2, 3, 0>>
    /\ flow.perm.inv_permute_indices # flow.perm.permute_indices
    /\ flow.x.shape[3] > 1 /\ flow.x.shape[1] > 1

====
